---------------------------- MODULE Spec2Model ----------------------------
(***************************************************************************)
(* Model of src/resize.py: the multiprocess JPG resizer.                   *)
(*                                                                         *)
(* main() parses the command line, validates it, enumerates the JPG files  *)
(* of the input folder, announces the resize mode, and maps resize_image   *)
(* over the files with a multiprocessing Pool; the results come back in    *)
(* task order and are printed, followed by a completion banner.            *)
(*                                                                         *)
(* An optional command line value (argparse default=None) is a sequence of *)
(* length 0 (None) or 1 (the value).  --percent is a float; the model      *)
(* draws it in half-percent units (100 is 50%, 300 is 150%), all           *)
(* of them exactly representable, so int(W * percent / 100) is             *)
(* (W * units) div 200.                                                    *)
(***************************************************************************)
EXTENDS Integers, Sequences, FiniteSets, TLC

\* ------------------------------------------------------------------ bounds
MaxDim == 3        \* largest --width / --height drawn
MaxImg == 2        \* largest image side drawn
MaxFiles == 2      \* most entries in the input folder
MaxWorkers == 1    \* largest --workers drawn

\* cpu_count() of the host
CpuCount == 2

\* ------------------------------------------------------------ option values
None == <<>>
Some(v) == <<v>>
IsNone(x) == x = <<>>
\* Python truthiness of an Optional number: None and 0 are falsy
Truthy(x) == x # <<>> /\ x[1] # 0
\* the value, 0 standing for None where only "is it a usable size" matters
Dim(x) == IF x = <<>> THEN 0 ELSE x[1]

\* int(a / b) for b > 0: truncation toward zero
IntDiv(a, b) == IF a >= 0 THEN a \div b ELSE -((-a) \div b)

Abs(a) == IF a >= 0 THEN a ELSE -a

\* --percent values drawn, in half-percent units: -0.5, 0, 50, 150
PercentValues == {-1, 0, 100, 300}
OptPercent == {None} \cup {Some(p) : p \in PercentValues}
OptDim == {None} \cup {Some(d) : d \in -1..MaxDim}
OptWorkers == {None} \cup {Some(n) : n \in -1..MaxWorkers}

\* what os.path.exists / os.listdir find at --input
InputKinds == {"missing", "dir", "file"}

Args == [input : InputKinds, percent : OptPercent, width : OptDim,
         height : OptDim, exact : BOOLEAN, aspect : BOOLEAN,
         workers : OptWorkers]

\* ------------------------------------------------------------- file names
\* a file name is the sequence of its characters
NameA == <<"a", ".", "j", "p", "g">>
NameB == <<"b", ".", "J", "P", "E", "G">>
NameC == <<"c", ".", "J", "p", "g">>
NameD == <<"d", ".", "p", "n", "g">>
NameE == <<".", "j", "p", "g">>
Names == {NameA, NameB, NameC, NameD, NameE}

\* str.lower() on one character of the alphabet used
LowerChar(c) ==
    CASE c = "J" -> "j" [] c = "P" -> "p" [] c = "E" -> "e" [] c = "G" -> "g"
      [] OTHER -> c
Lower(s) == [i \in 1..Len(s) |-> LowerChar(s[i])]

\* str.rfind('.'), 1-based; 0 when there is no dot
RFindDot(s) ==
    LET dots == {i \in 1..Len(s) : s[i] = "."}
    IN IF dots = {} THEN 0 ELSE CHOOSE i \in dots : \A j \in dots : j <= i

\* pathlib's PurePath.suffix: the last dot and what follows, unless the dot
\* leads or ends the name
Suffix(s) ==
    LET i == RFindDot(s)
    IN IF 1 < i /\ i < Len(s) THEN SubSeq(s, i, Len(s)) ELSE <<>>

extensions == {<<".", "j", "p", "g">>, <<".", "j", "p", "e", "g">>,
               <<".", "J", "P", "G">>, <<".", "J", "P", "E", "G">>}

\* the loop of get_image_files over os.listdir's answer
RECURSIVE get_image_files(_)
get_image_files(listing) ==
    IF listing = <<>> THEN <<>>
    ELSE IF Suffix(Head(listing)) \in extensions
         THEN <<Head(listing)>> \o get_image_files(Tail(listing))
         ELSE get_image_files(Tail(listing))

\* the answers os.listdir can give: the entries, each once, in any order
Listings ==
    {l \in UNION {[1..n -> Names] : n \in 0..MaxFiles} :
        \A i, j \in 1..Len(l) : i # j => l[i] # l[j]}


\* the sizes <<W, H>> of the images drawn
Sizes == {<<w, h>> : w \in 1..MaxImg, h \in 1..MaxImg}

\* a file on disk: "good" decodes and its output path can be written,
\* "corrupt" makes Image.open raise (corrupt, not an image, a directory),
\* "unwritable" decodes but the save to its output path raises
FileKinds == {"good", "corrupt", "unwritable"}

\* what Image.open can find in a file of that kind: <<>> when it raises
Decoded(kind) == IF kind = "corrupt" THEN {<<>>} ELSE Sizes

\* --------------------------------------------------------- resize_image
\* a slip in the cascade: the exact flag tested before percent
SelectModeExactFirst(width, height, percent, maintain_aspect, exact) ==
    IF exact THEN "exact"
    ELSE IF Truthy(percent) THEN "percent"
    ELSE IF Truthy(width) /\ ~Truthy(height) THEN "width"
    ELSE IF Truthy(height) /\ ~Truthy(width) THEN "height"
    ELSE IF maintain_aspect THEN "aspect"
    ELSE "default"

\* the if / elif cascade of resize_image: the branch taken
SelectMode(width, height, percent, maintain_aspect, exact) ==
    IF Truthy(percent) THEN "percent"
    ELSE IF exact THEN "exact"
    ELSE IF Truthy(width) /\ ~Truthy(height) THEN "width"
    ELSE IF Truthy(height) /\ ~Truthy(width) THEN "height"
    ELSE IF maintain_aspect THEN "aspect"
    ELSE "default"

\* a slip in the percent size: rounded to the nearest pixel, int(x + 0.5)
PercentOfRounded(original, percent) == IntDiv(original * percent + 100, 200)

\* int(original * percent / 100), percent in half-percent units
PercentOf(original, percent) == IntDiv(original * percent, 200)

\* round_aspect of Image.thumbnail: of floor and ceil of num/den the one whose
\* key is smaller (floor on a tie), and at least 1.  keyF and keyC are the
\* keys of floor and ceil over a common positive denominator.
RoundAspect(f, c, keyF, keyC) ==
    LET n == IF keyF <= keyC THEN f ELSE c
    IN IF n >= 1 THEN n ELSE 1

\* a slip in the fit: the image is resized to fit whether or not it already
\* does, so a small image is enlarged
ThumbnailEnlarging(W, H, x, y) ==
    IF x * H >= y * W
    THEN LET f == (y * W) \div H
             c == IF (y * W) % H = 0 THEN f ELSE f + 1
         IN <<RoundAspect(f, c, Abs(W * y - f * H), Abs(W * y - c * H)), y>>
    ELSE LET f == (x * H) \div W
             c == IF (x * H) % W = 0 THEN f ELSE f + 1
             keyF == IF f = 0 THEN 0 ELSE Abs(W * f - x * H) * c
             keyC == IF f = 0 THEN 1 ELSE Abs(W * c - x * H) * f
         IN <<x, RoundAspect(f, c, keyF, keyC)>>

\* Image.thumbnail((x, y)) on a W x H image, x, y >= 1: the size it leaves.
\* It never enlarges; otherwise it shrinks to fit, keeping the aspect ratio to
\* the nearest pixel.
Thumbnail(W, H, x, y) ==
    IF x >= W /\ y >= H THEN <<W, H>>
    ELSE IF x * H >= y * W
    THEN \* x / y >= aspect: height binds, x = round_aspect(y * aspect)
         LET f == (y * W) \div H
             c == IF (y * W) % H = 0 THEN f ELSE f + 1
         IN <<RoundAspect(f, c, Abs(W * y - f * H), Abs(W * y - c * H)), y>>
    ELSE \* width binds, y = round_aspect(x / aspect)
         LET f == (x * H) \div W
             c == IF (x * H) % W = 0 THEN f ELSE f + 1
             \* key(n) = 0 if n == 0 else abs(aspect - x / n), times H*f*c
             keyF == IF f = 0 THEN 0 ELSE Abs(W * f - x * H) * c
             keyC == IF f = 0 THEN 1 ELSE Abs(W * c - x * H) * f
         IN <<x, RoundAspect(f, c, keyF, keyC)>>

\* the size each branch asks for (for "aspect": the bounds handed to thumbnail)
TargetSize(mode, W, H, width, height, percent) ==
    CASE mode = "percent" -> <<PercentOf(W, percent[1]),
                               PercentOf(H, percent[1])>>
      [] mode = "width"   -> <<width[1], IntDiv(width[1] * H, W)>>
      [] mode = "height"  -> <<IntDiv(height[1] * W, H), height[1]>>
      [] OTHER            -> <<Dim(width), Dim(height)>>

\* Image.resize and Image.thumbnail raise unless both sides are at least 1
\* (a None side raises as well)
SizeAccepted(size) == size[1] >= 1 /\ size[2] >= 1

NoSize == <<0, 0>>

\* resize_image(args) on a file whose content is img and whose output path is
\* writable or not.  Every exception is caught and becomes a failure message.
\*   result:  the status message (ok, the file's basename, the sizes in it)
\*   applied: the size decoded, the branch taken and the size it asked for
\*   saved:   the size written to output_path, <<>> when nothing was written
resize_image(task, img, writable) ==
    LET mode == SelectMode(task.width, task.height, task.percent,
                           task.maintain_aspect, task.exact)
        fail(stage, m, t) ==
            [result |-> [ok |-> FALSE, name |-> task.input_path, err |-> stage,
                         orig |-> NoSize, final |-> NoSize],
             applied |-> [img |-> IF img = <<>> THEN NoSize ELSE img,
                          mode |-> m, target |-> t],
             saved |-> <<>>]
    IN IF img = <<>> THEN fail("open", "none", NoSize)
       ELSE LET W == img[1]
                H == img[2]
                target == TargetSize(mode, W, H, task.width, task.height,
                                     task.percent)
                final == IF mode = "aspect" /\ SizeAccepted(target)
                         THEN Thumbnail(W, H, target[1], target[2])
                         ELSE target
            IN IF ~SizeAccepted(target) THEN fail("resize", mode, target)
               ELSE IF ~writable THEN fail("save", mode, target)
               ELSE [result |-> [ok |-> TRUE, name |-> task.input_path,
                                 err |-> "", orig |-> img, final |-> final],
                     applied |-> [img |-> img, mode |-> mode,
                                  target |-> target],
                     saved |-> final]

\* ------------------------------------------------------------------ main
\* a slip in the validation: the width and height values are not checked
ValidationErrorDimsUnchecked(a) ==
    IF a.input = "missing" THEN "Input folder does not exist"
    ELSE IF ~IsNone(a.percent) /\ a.percent[1] <= 0
         THEN "Percentage must be greater than 0"
    ELSE IF IsNone(a.percent) /\ IsNone(a.width) /\ IsNone(a.height)
         THEN "Must specify either --percent, --width, --height"
    ELSE IF a.exact /\ a.aspect
         THEN "Cannot use both --exact and --aspect flags"
    ELSE IF (a.exact \/ a.aspect) /\ (IsNone(a.width) \/ IsNone(a.height))
         THEN "--exact and --aspect flags require both --width and --height"
    ELSE ""

\* a slip in the validation: the two flags are not checked against each other
ValidationErrorBothFlags(a) ==
    IF a.input = "missing" THEN "Input folder does not exist"
    ELSE IF ~IsNone(a.percent) /\ a.percent[1] <= 0
         THEN "Percentage must be greater than 0"
    ELSE IF IsNone(a.percent) /\ IsNone(a.width) /\ IsNone(a.height)
         THEN "Must specify either --percent, --width, --height"
    ELSE IF (a.exact \/ a.aspect) /\ (IsNone(a.width) \/ IsNone(a.height))
         THEN "--exact and --aspect flags require both --width and --height"
    ELSE IF ~IsNone(a.width) /\ a.width[1] <= 0
         THEN "Width must be greater than 0"
    ELSE IF ~IsNone(a.height) /\ a.height[1] <= 0
         THEN "Height must be greater than 0"
    ELSE ""

\* a slip in the validation: a flag is not required to come with both sizes
ValidationErrorFlagsAlone(a) ==
    IF a.input = "missing" THEN "Input folder does not exist"
    ELSE IF ~IsNone(a.percent) /\ a.percent[1] <= 0
         THEN "Percentage must be greater than 0"
    ELSE IF IsNone(a.percent) /\ IsNone(a.width) /\ IsNone(a.height)
         THEN "Must specify either --percent, --width, --height"
    ELSE IF a.exact /\ a.aspect
         THEN "Cannot use both --exact and --aspect flags"
    ELSE IF ~IsNone(a.width) /\ a.width[1] <= 0
         THEN "Width must be greater than 0"
    ELSE IF ~IsNone(a.height) /\ a.height[1] <= 0
         THEN "Height must be greater than 0"
    ELSE ""

\* the validation of main, in the order of its checks: the "Error:" message
\* of the first check that fails, "" when all pass
ValidationError(a) ==
    IF a.input = "missing" THEN "Input folder does not exist"
    ELSE IF ~IsNone(a.percent) /\ a.percent[1] <= 0
         THEN "Percentage must be greater than 0"
    ELSE IF IsNone(a.percent) /\ IsNone(a.width) /\ IsNone(a.height)
         THEN "Must specify either --percent, --width, --height"
    ELSE IF a.exact /\ a.aspect
         THEN "Cannot use both --exact and --aspect flags"
    ELSE IF (a.exact \/ a.aspect) /\ (IsNone(a.width) \/ IsNone(a.height))
         THEN "--exact and --aspect flags require both --width and --height"
    ELSE IF ~IsNone(a.width) /\ a.width[1] <= 0
         THEN "Width must be greater than 0"
    ELSE IF ~IsNone(a.height) /\ a.height[1] <= 0
         THEN "Height must be greater than 0"
    ELSE ""

\* the "Mode:" line of main: its own if / elif cascade
DisplayMode(a) ==
    IF Truthy(a.percent) THEN "percent"
    ELSE IF a.exact THEN "exact"
    ELSE IF a.aspect THEN "aspect"
    ELSE IF Truthy(a.width) /\ ~Truthy(a.height) THEN "width"
    ELSE IF Truthy(a.height) /\ ~Truthy(a.width) THEN "height"
    ELSE "default"

\* num_workers = args.workers if args.workers else cpu_count()
NumWorkers(a) == IF Truthy(a.workers) THEN a.workers[1] ELSE CpuCount

\* the task tuples main builds, one per enumerated file, in that order
Tasks(a, files) ==
    [i \in 1..Len(files) |->
        [input_path |-> files[i], output_path |-> files[i],
         width |-> a.width, height |-> a.height, percent |-> a.percent,
         maintain_aspect |-> a.aspect, exact |-> a.exact]]

\* a slip in the collection: results kept in the order the tasks finish
StoreResultAsCompleted(res, i, r) ==
    LET free == {k \in 1..Len(res) : res[k] = <<>>}
        k == CHOOSE k \in free : \A j \in free : k <= j
    IN [res EXCEPT ![k] = <<r>>]

\* Pool.map keeps each result at the index of its task
StoreResult(res, i, r) == [res EXCEPT ![i] = <<r>>]

\* the "Results:" lines: print(result) for result in results
RECURSIVE ResultLines(_)
ResultLines(res) ==
    IF res = <<>> THEN <<>>
    ELSE <<<<"Result", Head(res)[1]>>>> \o ResultLines(Tail(res))

VARIABLES
    args,         \* the parsed command line
    pc,           \* where main is
    output,       \* the lines printed, each <<kind, payload>>
    listing,      \* what os.listdir answered, while get_image_files runs
    image_files,  \* the files get_image_files kept
    tasks,        \* the task tuples handed to pool.map
    disk,         \* per kept file: its kind on disk
    num_workers,  \* the pool's size
    next,         \* index of the next task the pool hands out
    running,      \* per worker: the task it runs, 0 when idle
    results,      \* per task: <<>> until done, then <<status message>>
    applied,      \* per task: the branch resize_image took and its target
    finished,     \* the tasks in the order their results came back
    opened,       \* the input files Image.open was called on
    written,      \* the output files saved, each <<name, size>>
    outdir        \* whether os.makedirs(args.output) has run

vars == <<args, pc, output, listing, image_files, tasks, disk, num_workers,
          next, running, results, applied, finished, opened, written, outdir>>

Init ==
    /\ args \in Args
    /\ pc = "start"
    /\ output = <<>>
    /\ listing = <<>>
    /\ image_files = <<>>
    /\ tasks = <<>>
    /\ disk = <<>>
    /\ num_workers = 0
    /\ next = 1
    /\ running = <<>>
    /\ results = <<>>
    /\ applied = <<>>
    /\ finished = <<>>
    /\ opened = {}
    /\ written = {}
    /\ outdir = FALSE

\* main, from parse_args to the end of the validation
MainValidate ==
    /\ pc = "start"
    /\ LET e == ValidationError(args)
       IN IF e # ""
          THEN /\ output' = Append(output, <<"Error", e>>)
               /\ pc' = "done"
          ELSE /\ output' = output
               /\ pc' = "validated"
    /\ UNCHANGED <<args, listing, image_files, tasks, disk, num_workers, next,
                   running, results, applied, finished, opened, written,
                   outdir>>

\* main, os.makedirs and the call of get_image_files: the folder is listed
\* and the JPG names kept, each naming a file of some kind
MainListFiles ==
    /\ pc = "validated"
    /\ outdir' = TRUE
    /\ IF args.input = "file"
       THEN \* os.listdir raises NotADirectoryError, which nothing catches
            /\ pc' = "crashed"
            /\ UNCHANGED <<listing, image_files, disk>>
       ELSE \E l \in Listings :
            /\ listing' = l
            /\ image_files' = get_image_files(l)
            /\ disk' \in [1..Len(get_image_files(l)) -> FileKinds]
            /\ pc' = "listed"
    /\ UNCHANGED <<args, output, tasks, num_workers, next, running,
                   results, applied, finished, opened, written>>

\* main, from the return of get_image_files (whose listing is gone with its
\* frame) to the task list: the files are counted, the mode and the pool size
\* announced
MainAnnounce ==
    /\ pc = "listed"
    /\ listing' = <<>>
    /\ IF image_files = <<>>
       THEN /\ output' = Append(output, <<"NoImages", "">>)
            /\ pc' = "done"
            /\ UNCHANGED <<tasks, num_workers>>
       ELSE /\ output' = output \o <<<<"Found", Len(image_files)>>,
                                     <<"Mode", DisplayMode(args)>>,
                                     <<"Using", NumWorkers(args)>>>>
            /\ num_workers' = NumWorkers(args)
            /\ tasks' = Tasks(args, image_files)
            /\ pc' = "pool"
    /\ UNCHANGED <<args, image_files, disk, next, running, results, applied,
                   finished, opened, written, outdir>>

\* Pool(processes=num_workers): raises ValueError below 1, else starts the
\* workers; pool.map then queues the tasks
PoolStart ==
    /\ pc = "pool"
    /\ IF num_workers < 1
       THEN /\ pc' = "crashed"
            /\ UNCHANGED <<running, results, applied>>
       ELSE /\ pc' = "map"
            /\ running' = [w \in 1..num_workers |-> 0]
            /\ results' = [i \in 1..Len(tasks) |-> <<>>]
            /\ applied' = [i \in 1..Len(tasks) |-> <<>>]
    /\ UNCHANGED <<args, output, listing, image_files, tasks, disk,
                   num_workers, next, finished, opened, written, outdir>>

\* an idle worker takes the next task of the queue
WorkerTake(w) ==
    /\ pc = "map"
    /\ running[w] = 0
    /\ next <= Len(tasks)
    /\ running' = [running EXCEPT ![w] = next]
    /\ next' = next + 1
    /\ UNCHANGED <<args, pc, output, listing, image_files, tasks, disk,
                   num_workers, results, applied, finished, opened, written,
                   outdir>>

\* a worker runs resize_image on its task and sends the result back
WorkerRun(w) ==
    /\ pc = "map"
    /\ running[w] # 0
    /\ \E img \in Decoded(disk[running[w]]) :
       LET i == running[w]
           r == resize_image(tasks[i], img, disk[i] # "unwritable")
       IN /\ results' = StoreResult(results, i, r.result)
          /\ applied' = [applied EXCEPT ![i] = <<r.applied>>]
          /\ finished' = Append(finished, i)
          /\ opened' = opened \cup {tasks[i].input_path}
          /\ written' = IF r.saved = <<>> THEN written
                        ELSE written \cup {<<tasks[i].output_path, r.saved>>}
    /\ running' = [running EXCEPT ![w] = 0]
    /\ UNCHANGED <<args, pc, output, listing, image_files, tasks, disk,
                   num_workers, next, outdir>>

\* pool.map returns once every task has its result; main prints the results
\* and the completion banner
MainReport ==
    /\ pc = "map"
    /\ \A i \in 1..Len(tasks) : results[i] # <<>>
    /\ output' = output \o <<<<"Results", "">>>> \o ResultLines(results)
                        \o <<<<"Completed", "">>>>
    /\ pc' = "done"
    /\ UNCHANGED <<args, listing, image_files, tasks, disk, num_workers, next,
                   running, results, applied, finished, opened, written,
                   outdir>>

Next ==
    \/ MainValidate
    \/ MainListFiles
    \/ MainAnnounce
    \/ PoolStart
    \/ \E w \in 1..num_workers : WorkerTake(w)
    \/ \E w \in 1..num_workers : WorkerRun(w)
    \/ MainReport

Spec == Init /\ [][Next]_vars

\* ---------------------------------------------------------------- claims
\* the tasks resize_image has decoded an image for and taken a branch on
Resolved ==
    {i \in 1..Len(applied) : applied[i] # <<>> /\ applied[i][1].mode # "none"}

\* the configuration passed the validation of main
Accepted == pc # "start" /\ (output = <<>> \/ output[1][1] # "Error")

\* the selection order as the specification words it, on what is given
SpecMode(a) ==
    IF ~IsNone(a.percent) THEN "percent"
    ELSE IF a.exact THEN "exact"
    ELSE IF ~IsNone(a.width) /\ IsNone(a.height) THEN "width"
    ELSE IF ~IsNone(a.height) /\ IsNone(a.width) THEN "height"
    ELSE IF a.aspect THEN "aspect"
    ELSE "default"

\* C1: for every validated configuration and every image, resize_image takes
\* the first matching strategy in the order percent given, exact flag, width
\* without height, height without width, aspect flag, else the default, which
\* is an exact resize to (width, height) with both given; percent wins over
\* any width, height or flag given with it.
C1_FirstMatchSelection ==
    \A i \in Resolved :
        /\ applied[i][1].mode = SpecMode(args)
        /\ ~IsNone(args.percent) => applied[i][1].mode = "percent"
        /\ applied[i][1].mode = "default" =>
              /\ ~IsNone(args.width) /\ ~IsNone(args.height)
              /\ applied[i][1].target = <<args.width[1], args.height[1]>>

\* a task resolved in percent mode although a width, a height and the exact
\* flag came with the percentage
C1_Witness ==
    \E i \in Resolved :
        /\ applied[i][1].mode = "percent"
        /\ args.exact /\ ~IsNone(args.width) /\ ~IsNone(args.height)

\* the invalid configurations as the specification lists them
Invalid(a) ==
    \/ a.input = "missing"
    \/ IsNone(a.percent) /\ IsNone(a.width) /\ IsNone(a.height)
    \/ ~IsNone(a.percent) /\ a.percent[1] <= 0
    \/ ~IsNone(a.width) /\ a.width[1] <= 0
    \/ ~IsNone(a.height) /\ a.height[1] <= 0
    \/ a.exact /\ a.aspect
    \/ (a.exact \/ a.aspect) /\ (IsNone(a.width) \/ IsNone(a.height))

\* C2: every invalid configuration makes main return after exactly one
\* "Error:" line, with no folder listed, no task built or started, no file
\* read and no output file written.
C2_InvalidRejectedOnce ==
    Invalid(args) /\ pc # "start" =>
        /\ pc = "done"
        /\ Len(output) = 1 /\ output[1][1] = "Error"
        /\ listing = <<>> /\ image_files = <<>> /\ tasks = <<>>
        /\ running = <<>> /\ results = <<>>
        /\ opened = {} /\ written = {}

\* main has returned on a configuration that sets both flags on an existing
\* folder
C2_Witness ==
    /\ pc = "done" /\ args.input = "dir" /\ args.exact /\ args.aspect
    /\ Len(output) = 1 /\ output[1][1] = "Error"

\* the sizing modes a configuration sets, as the data model names them
ActiveModes(a) ==
    {m \in {"percent", "exact", "aspect", "width", "height", "default"} :
        \/ m = "percent" /\ ~IsNone(a.percent)
        \/ m = "exact" /\ a.exact
        \/ m = "aspect" /\ a.aspect
        \/ m = "width" /\ ~IsNone(a.width) /\ IsNone(a.height)
        \/ m = "height" /\ ~IsNone(a.height) /\ IsNone(a.width)
        \/ m = "default" /\ ~IsNone(a.width) /\ ~IsNone(a.height)
                         /\ ~a.exact /\ ~a.aspect}

\* C5 as stated: validation accepts a configuration only if exactly one of
\* the six sizing modes is active.
C5_ExactlyOneMode == Accepted => Cardinality(ActiveModes(args)) = 1

\* C5 amended: validation accepts a configuration only if at least one sizing
\* mode is active and at most one of the five other than percent is; percent
\* may come with any one of those.
C5_OneModeBesidesPercent ==
    Accepted =>
        /\ Cardinality(ActiveModes(args)) >= 1
        /\ Cardinality(ActiveModes(args) \ {"percent"}) <= 1

\* a configuration giving a percentage and a width was accepted and its
\* files listed
C5_Witness ==
    /\ pc = "listed"
    /\ ActiveModes(args) = {"percent", "width"}

\* C10: the mode the "Mode:" line announces is the strategy resize_image
\* applies to each file.
C10_AnnouncedModeApplied ==
    \A k \in 1..Len(output) : output[k][1] = "Mode" =>
        \A i \in Resolved : applied[i][1].mode = output[k][2]

\* the aspect mode was announced and applied, the one the two cascades test at
\* different places
C10_Witness ==
    /\ Len(output) >= 2 /\ output[2] = <<"Mode", "aspect">>
    /\ \E i \in Resolved : applied[i][1].mode = "aspect"

\* the tasks that succeeded in aspect mode
FittedTasks ==
    {i \in Resolved : applied[i][1].mode = "aspect" /\ results[i] # <<>>
                      /\ results[i][1].ok}

\* the aspect ratio W : H kept by a size, to the pixel: one side is within one
\* pixel of what the other side asks for
AspectKept(size, W, H) ==
    \/ Abs(size[1] * H - size[2] * W) < H
    \/ Abs(size[2] * W - size[1] * H) < W

\* what C6 states of every bounded fit, but for the axis that meets its bound
FitWithinBounds(i) ==
    LET W == applied[i][1].img[1]
        H == applied[i][1].img[2]
        bound == applied[i][1].target
        out == results[i][1].final
    IN /\ out[1] <= bound[1] /\ out[2] <= bound[2]
       /\ out[1] <= W /\ out[2] <= H
       /\ out[1] >= 1 /\ out[2] >= 1
       /\ AspectKept(out, W, H)
       /\ <<tasks[i].output_path, out>> \in written

\* C6 as stated: in aspect mode the output is within the bounds on both axes,
\* never scaled up, keeps the aspect ratio, and at least one output axis equals
\* its requested bound.
C6_FitMeetsABound ==
    \A i \in FittedTasks :
        /\ FitWithinBounds(i)
        /\ \/ results[i][1].final[1] = applied[i][1].target[1]
           \/ results[i][1].final[2] = applied[i][1].target[2]

\* C6 amended: in aspect mode the output is within the bounds on both axes,
\* never scaled up and keeps the aspect ratio; an image that already fits the
\* bounds keeps its size, and only an image that exceeds a bound has an output
\* axis equal to its bound.
C6_FitMeetsABoundWhenShrunk ==
    \A i \in FittedTasks :
        LET img == applied[i][1].img
            bound == applied[i][1].target
            out == results[i][1].final
        IN /\ FitWithinBounds(i)
           /\ IF img[1] <= bound[1] /\ img[2] <= bound[2]
              THEN out = img
              ELSE out[1] = bound[1] \/ out[2] = bound[2]

\* a 2 x 2 image was fitted into bounds one pixel wide and came out 1 x 1
C6_Witness ==
    \E i \in FittedTasks :
        /\ applied[i][1].img = <<2, 2>>
        /\ applied[i][1].target[1] = 1 /\ applied[i][1].target[2] > 1
        /\ results[i][1].final = <<1, 1>>

\* the tasks that decoded an image of a good file in percent mode
PercentTasks ==
    {i \in Resolved : applied[i][1].mode = "percent" /\ disk[i] = "good"}

\* floor(W * p / 100) for p in half-percent units
FloorPercent(W, p) == (W * p) \div 200

CaseInsensitiveJpg(l) ==
    {l[k] : k \in {j \in 1..Len(l) :
                      Lower(Suffix(l[j])) \in {<<".", "j", "p", "g">>,
                                               <<".", "j", "p", "e", "g">>}}}

\* C8: get_image_files returns exactly the entries of the input folder whose
\* extension is .jpg or .jpeg compared case-insensitively.
C8_CaseInsensitiveExtensions ==
    pc = "listed" =>
        {image_files[k] : k \in 1..Len(image_files)}
            = CaseInsensitiveJpg(listing)

\* the "Results:" block of the report
ReportLines == SelectSeq(output, LAMBDA line : line[1] = "Result")

\* C9: the i-th printed result line is the outcome of the i-th enumerated
\* file, whatever the order the tasks finished in, and a finished report has
\* one line per file.
C9_ReportInEnumerationOrder ==
    /\ \A i \in 1..Len(ReportLines) :
          LET line == ReportLines[i][2]
          IN /\ i <= Len(image_files)
             /\ line.name = image_files[i]
             /\ line.ok <=> <<image_files[i], line.final>> \in written
             /\ line.ok => line.orig = applied[i][1].img
             /\ line.err = "open" <=> disk[i] = "corrupt"
    /\ pc = "done" /\ tasks # <<>> => Len(ReportLines) = Len(image_files)

\* the second task finished first, and the report still lists the first file
\* first
C9_Witness ==
    /\ pc = "done" /\ finished = <<2, 1>>
    /\ Len(ReportLines) = 2
    /\ ReportLines[1][2].name = image_files[1]
    /\ ReportLines[1][2].ok /\ ~ReportLines[2][2].ok

\* the files that cannot be resized: corrupt or unwritable on disk, or decoded
\* to a size whose target resize rejects
Failing ==
    {i \in 1..Len(image_files) :
        \/ disk[i] # "good"
        \/ /\ i <= Len(results) /\ results[i] # <<>>
           /\ results[i][1].err = "resize"}

\* every file has its outcome, the failing ones a failure carrying their name,
\* the others a resized file in the output folder
Isolated ==
    /\ Len(results) = Len(image_files)
    /\ \A i \in 1..Len(image_files) :
          /\ results[i] # <<>>
          /\ results[i][1].name = image_files[i]
          /\ results[i][1].ok <=> i \notin Failing
          /\ results[i][1].ok =>
                <<image_files[i], results[i][1].final>> \in written
    /\ Len(ReportLines) = Len(image_files)

\* main is over: it returned or an exception ended it
Ended == pc \in {"done", "crashed"}

\* C3: a batch of N eligible files of which exactly one cannot be resized ends
\* with exactly N outcomes, exactly one of them a failure carrying that file's
\* name, and the other N-1 files written resized.
C3_PartialFailureIsolation ==
    Ended /\ Accepted /\ image_files # <<>> /\ Cardinality(Failing) = 1
        => Isolated

\* the same once the pool has started: what holds of the code whenever
\* --workers is not negative
C3_IsolationOncePoolStarted ==
    pc = "done" /\ tasks # <<>> => Isolated

\* C4: whenever validation passes and at least one eligible file exists, the
\* run goes on to completion: it never ends in an exception, it can always
\* take a step until it is done, and when done it has printed one result line
\* per file and the completion banner.
C4_BatchCompletes ==
    Accepted /\ image_files # <<>> =>
        /\ pc # "crashed"
        /\ pc # "done" => ENABLED Next
        /\ pc = "done" =>
              /\ Len(ReportLines) = Len(image_files)
              /\ output[Len(output)][1] = "Completed"

=============================================================================
